---- MODULE Spec2Model ----
(***************************************************************************)
(* UIP Gateway: the event dispatch core (Gateway), the OpenClaw backend    *)
(* client (OpenclawClient: correlation maps, retry loop, callbacks) and    *)
(* the local adapter's intent delivery, as one state machine.              *)
(*                                                                         *)
(* Strings that the code parses (the callback's `to` field, map keys) are  *)
(* sequences of tokens, so that parsing is computed and not assumed.       *)
(***************************************************************************)
EXTENDS Integers, Sequences, FiniteSets, TLC

(***************************************************************************)
(* Bounds of the model                                                     *)
(***************************************************************************)
MaxEvents == 2          \* inbound messages submitted in one behaviour
MaxCallbacks == 1       \* outbound callbacks posted by the backend
MaxClears == 1          \* ClearSessionContext calls

(***************************************************************************)
(* Configuration                                                           *)
(***************************************************************************)
WorkerCount == 2        \* gateway.Config.WorkerCount
QueueSize == 1          \* gateway.Config.QueueSize
MaxRetries == 3         \* clawdbot.Config.MaxRetries
SendChCap == 1          \* capacity of wsConnection.sendCh

Workers == 1..WorkerCount

S1 == <<"s1">>
U1 == <<"u1">>
U2 == <<"u2">>

\* MessageRequest bodies posted to the local adapter, in the order of arrival:
\* two users of one session, the second naming a channel
Requests ==
    << [sessionId |-> S1, userId |-> U1, channelId |-> <<>>],
       [sessionId |-> S1, userId |-> U2, channelId |-> <<"c1">>] >>

RequestAt(n) == Requests[((n - 1) % Len(Requests)) + 1]

\* OpenclawOutboundPayload bodies posted by the backend
CallbackTos ==
    { <<"user", ":", "u1">>, <<"channel", ":", "s1">>, <<"group", ":", "g1", ":", "t">> }
CallbackTexts == { "T1" }
Callbacks ==
    { [to |-> t, text |-> x, mediaUrl |-> m, replyToId |-> 0, threadId |-> "th1"] :
        t \in CallbackTos, x \in CallbackTexts, m \in {""} }

\* texts of the intents: the apology of processEvent, the placeholder that
\* sendViaWebhook delivers (a fixed notice that the message was sent and the
\* reply is awaited), the content of a chat-completions choice
ApologyText == "Sorry, I encountered an error processing your request. Please try again."
PlaceholderText == "placeholder: message sent to OpenClaw, waiting for AI response"
ChatText == "chat completions reply"

(***************************************************************************)
(* protocol: intents                                                       *)
(***************************************************************************)
NoIntent ==
    [intentType |-> "nil", text |-> "", markdown |-> "", attachments |-> <<>>,
     targetSessionId |-> <<>>, inReplyTo |-> 0]

NewInteractionIntent(intentType, text, targetSessionID, inReplyTo) ==
    [intentType |-> intentType, text |-> text, markdown |-> "", attachments |-> <<>>,
     targetSessionId |-> targetSessionID, inReplyTo |-> inReplyTo]

\* capabilities declared by NewLocalAdapter
LocalCapabilities ==
    [supportsReply |-> TRUE, supportsEdit |-> TRUE, supportsReaction |-> FALSE,
     supportsThread |-> FALSE, supportsAttachment |-> FALSE, supportsMarkdown |-> TRUE]

\* a markdown rule that removes the markers first and the text on a later pass
stripMarkdownStepwise(caps, intent) ==
    IF ~caps.supportsMarkdown
    THEN [intent EXCEPT !.markdown = IF @ = "**hello**" THEN "hello" ELSE ""]
    ELSE intent

\* if markdown is not supported, strip markdown
stripMarkdown(caps, intent) ==
    IF ~caps.supportsMarkdown THEN [intent EXCEPT !.markdown = ""] ELSE intent

\* an attachment rule that keeps the attachments
removeAttachmentsKept(caps, intent) == intent

\* if attachments are not supported, remove them
removeAttachments(caps, intent) ==
    IF ~caps.supportsAttachment THEN [intent EXCEPT !.attachments = <<>>] ELSE intent

\* a degradation that turns a notify intent into a reply where edits are not
\* supported
applyDegradationConvert(caps, intent) ==
    LET i == removeAttachments(caps, stripMarkdown(caps, intent))
    IN  IF ~caps.supportsEdit /\ i.intentType = "notify"
        THEN [i EXCEPT !.intentType = "reply"]
        ELSE i

\* the third rule (edit not supported, notify intent) has an empty body
applyDegradation(caps, intent) ==
    removeAttachments(caps, stripMarkdown(caps, intent))

(***************************************************************************)
(* maps with a dynamic key set                                             *)
(***************************************************************************)
Put(m, k, v) == [x \in DOMAIN m \cup {k} |-> IF x = k THEN v ELSE m[x]]
Delete(m, k) == [x \in DOMAIN m \ {k} |-> m[x]]
EmptyMap == [x \in {} |-> 0]

VARIABLES
    adapters,          \* Gateway.adapters (names)
    started,           \* Gateway.started
    stopCh,            \* Gateway.stopCh is closed
    eventQueue,        \* Gateway.eventQueue: buffered interaction ids
    queueClosed,       \* Gateway.eventQueue is closed
    stopPc,            \* position of the Gateway.Stop call
    sessions,          \* SessionRegistry.sessions: id -> session
    events,            \* the CanonicalInteractionEvents created, by interaction id
    dropLog,           \* "Event queue full, dropping event" warnings (interaction ids)
    panicLog,          \* handleEvent calls ended by a run-time panic: the event, and
                       \* whether the queue was full
    wk,                \* per worker: position in eventWorker/processEvent/ProcessEvent
    closed,            \* OpenclawClient.closed
    pending,           \* OpenclawClient.pending: key -> context
    sessionCtx,        \* OpenclawClient.sessionCtx: key -> context
    responseCh,        \* PendingContext.ResponseCh per context (capacity 1)
    outboundCallback,  \* OpenclawClient.outboundCallback is set
    delivered,         \* OutboundResponses passed to the outbound callback
    returned,          \* OutboundResponses returned by HandleCallback, each with the
                       \* events of its conversation known and timed out by then
    nCallbacks,        \* HandleCallback calls so far
    nClears,           \* ClearSessionContext calls so far
    wsConns,           \* LocalAdapter.wsConns: session id -> sendCh contents
    frontend,          \* intents written to a WebSocket by wsWritePump
    sent,              \* SendIntent calls: adapter, event, ProcessEvent's result, the
                       \* intent, whether the connection had room, what the call did
    probe,             \* a function applied on its own: its arguments and results
    queuedAtStop       \* the events in the queue when Gateway.Stop closed stopCh
                       \* that no worker has received since

vars == <<adapters, started, stopCh, eventQueue, queueClosed, stopPc, sessions, events,
          dropLog, panicLog, wk, closed, pending, sessionCtx, responseCh,
          outboundCallback, delivered, returned, nCallbacks, nClears, wsConns,
          frontend, sent, probe, queuedAtStop>>

gatewayVars == <<adapters, started, stopCh, eventQueue, queueClosed, stopPc, sessions,
                 events, dropLog, panicLog>>
gatewayVarsButStop == <<adapters, started, stopCh, eventQueue, queueClosed, sessions,
                        events, dropLog, panicLog>>
clientVars == <<closed, pending, sessionCtx, responseCh, outboundCallback, delivered,
                returned, nCallbacks, nClears>>
adapterVars == <<wsConns, frontend, sent>>

IdleWorker ==
    [pc |-> "off", ev |-> 0, lastErr |-> FALSE, ctxDone |-> FALSE, cancelAt |-> 0,
     outcomes |-> <<>>, requests |-> <<>>, backoffs |-> <<>>, res |-> "none", intent |-> NoIntent,
     cbSeen |-> {}, cbTaken |-> {}]

InitGateway ==
    /\ adapters = {}
    /\ started = FALSE
    /\ stopCh = FALSE
    /\ eventQueue = <<>>
    /\ queueClosed = FALSE
    /\ stopPc = "none"
    /\ sessions = EmptyMap
    /\ events = <<>>
    /\ dropLog = <<>>
    /\ panicLog = <<>>
    /\ wk = [w \in Workers |-> IdleWorker]
    /\ closed = FALSE
    /\ pending = EmptyMap
    /\ sessionCtx = EmptyMap
    /\ responseCh = [c \in 1..MaxEvents |-> NoIntent]
    /\ outboundCallback = FALSE
    /\ delivered = <<>>
    /\ returned = <<>>
    /\ nCallbacks = 0
    /\ nClears = 0
    /\ wsConns = EmptyMap
    /\ frontend = {}
    /\ sent = <<>>
    /\ queuedAtStop = {}

\* no function is applied on its own
NoProbe == [kind |-> "none"]

Init == InitGateway /\ probe = NoProbe

(***************************************************************************)
(* Gateway lifecycle                                                       *)
(***************************************************************************)
AdapterNames == {"local"}

\* Gateway.RegisterAdapter
RegisterAdapter(a) ==
    /\ ~started
    /\ a \notin adapters
    /\ adapters' = adapters \cup {a}
    /\ UNCHANGED <<probe, queuedAtStop, started, stopCh, eventQueue, queueClosed, stopPc, sessions, events,
                   dropLog, panicLog, wk, clientVars, adapterVars>>

\* `for i := 0; i < g.config.WorkerCount; i++ { go g.eventWorker(i) }`
Spawned ==
    IF probe.kind = "config" THEN 1..probe.workerCount ELSE Workers

\* `make(chan *eventContext, config.QueueSize)`
QueueCapacity ==
    IF probe.kind = "config" THEN probe.queueSize ELSE QueueSize

\* Gateway.Start: the workers begin to pull from the queue
Start ==
    /\ ~started
    /\ stopPc = "none"
    /\ started' = TRUE
    /\ wk' = [w \in Workers |-> IF w \in Spawned THEN [wk[w] EXCEPT !.pc = "idle"]
                                                  ELSE wk[w]]
    /\ UNCHANGED <<probe, queuedAtStop, adapters, stopCh, eventQueue, queueClosed, stopPc, sessions, events,
                   dropLog, panicLog, clientVars, adapterVars>>

\* Gateway.Stop, up to close(g.stopCh)
StopSignal ==
    /\ started
    /\ stopPc = "none"
    /\ started' = FALSE
    /\ stopCh' = TRUE
    /\ stopPc' = "signalled"
    /\ queuedAtStop' = {eventQueue[i] : i \in DOMAIN eventQueue}
    /\ UNCHANGED <<probe, adapters, eventQueue, queueClosed, sessions, events, dropLog,
                   panicLog, wk, clientVars, adapterVars>>

\* Gateway.Stop: every adapter's Stop (LocalAdapter.Stop drops its connections),
\* then close(g.eventQueue)
StopAdapters ==
    /\ stopPc = "signalled"
    /\ wsConns' = EmptyMap
    /\ queueClosed' = TRUE
    /\ stopPc' = "waiting"
    /\ UNCHANGED <<probe, queuedAtStop, adapters, started, stopCh, eventQueue, sessions, events, dropLog,
                   panicLog, wk, clientVars, frontend, sent>>

\* Gateway.Stop: the wait for the workers ends (all exited, or the shutdown
\* context expired), then the client is closed
StopClose ==
    /\ stopPc = "waiting"
    /\ closed' = TRUE
    /\ stopPc' = "done"
    /\ UNCHANGED <<probe, queuedAtStop, gatewayVarsButStop, wk, pending, sessionCtx, responseCh,
                   outboundCallback, delivered, returned, nCallbacks, nClears,
                   adapterVars>>

(***************************************************************************)
(* LocalAdapter.handleMessage -> Gateway.handleEvent                       *)
(***************************************************************************)
\* a generator that yields the empty string
UuidEmpty(n) == <<>>

Uuid(n) == <<"uuid", ToString(n)>>

\* handleMessage: defaults, then the session id of the event
EventOfRequest(req, n) ==
    LET sid == IF req.sessionId = <<>> THEN Uuid(n) ELSE req.sessionId
        uid == IF req.userId = <<>> THEN <<"anonymous">> ELSE req.userId
        sessionID == IF req.channelId # <<>> /\ sid = <<>> THEN req.channelId ELSE sid
    IN  [interactionId |-> n, session |-> sessionID, user |-> uid,
         channelId |-> req.channelId, capabilities |-> LocalCapabilities,
         adapterName |-> "local"]

\* Gateway.handleEvent: select { case g.eventQueue <- ctx: ... default: drop }.
\* A send on a closed channel panics, whatever the buffer holds. The panic is
\* fatal to the process when the caller is a read pump goroutine; the HTTP
\* server recovers the panic of a request handler.
handleEvent(event) ==
    IF queueClosed
    THEN /\ \E fatal \in BOOLEAN :
                panicLog' = Append(panicLog, [ev |-> event.interactionId,
                                              full |-> Len(eventQueue) >= QueueCapacity,
                                              fatal |-> fatal])
         /\ UNCHANGED <<eventQueue, dropLog>>
    ELSE IF Len(eventQueue) < QueueCapacity
    THEN /\ eventQueue' = Append(eventQueue, event.interactionId)
         /\ UNCHANGED <<dropLog, panicLog>>
    ELSE /\ dropLog' = Append(dropLog, event.interactionId)
         /\ UNCHANGED <<eventQueue, panicLog>>

\* a well-formed POST {adapterPath}/message
HandleMessage(req) ==
    /\ Len(events) < MaxEvents
    /\ req = RequestAt(Len(events) + 1)
    /\ "local" \in adapters
    /\ LET event == EventOfRequest(req, Len(events) + 1)
       IN  /\ events' = Append(events, event)
           /\ handleEvent(event)
    /\ UNCHANGED <<probe, queuedAtStop, adapters, started, stopCh, queueClosed, stopPc, sessions, wk,
                   clientVars, adapterVars>>

(***************************************************************************)
(* Gateway.eventWorker and the start of processEvent                       *)
(***************************************************************************)
Touch(reg, id, session) == Put(reg, id, session)

NewCall(e) ==
    [pc |-> "regPending", ev |-> e, lastErr |-> FALSE, ctxDone |-> FALSE, cancelAt |-> 0,
     outcomes |-> <<>>, requests |-> <<>>, backoffs |-> <<>>, res |-> "none", intent |-> NoIntent,
     cbSeen |-> {}, cbTaken |-> {}]

\* a receive that takes the value sent last
ReceiveNewest(queue) ==
    [e |-> queue[Len(queue)], rest |-> SubSeq(queue, 1, Len(queue) - 1)]

\* `ctx, ok := <-g.eventQueue`: a channel hands out its values in send order
Receive(queue) == [e |-> Head(queue), rest |-> Tail(queue)]

\* eventWorker takes an event; processEvent touches the session and calls
\* ProcessEvent, which first checks c.closed. The workers run the same code:
\* of the idle ones, the one of least index stands for whichever receives.
Dequeue(w) ==
    /\ wk[w].pc = "idle"
    /\ \A v \in 1..(w - 1) : wk[v].pc # "idle"
    /\ eventQueue # <<>>
    /\ LET e == Receive(eventQueue).e
           ev == events[e]
       IN  /\ eventQueue' = Receive(eventQueue).rest
           /\ queuedAtStop' = queuedAtStop \ {e}
           /\ sessions' = Touch(sessions, ev.session, [userId |-> ev.user])
           /\ wk' = [wk EXCEPT ![w] =
                        IF closed
                        THEN [NewCall(e) EXCEPT !.pc = "return", !.res = "errClosed"]
                        ELSE NewCall(e)]
    /\ UNCHANGED <<probe, adapters, started, stopCh, queueClosed, stopPc, events, dropLog,
                   panicLog, clientVars, adapterVars>>

\* eventWorker returns: stop signal received, or the queue is closed and empty
WorkerExit(w) ==
    /\ wk[w].pc = "idle"
    /\ \/ stopCh
       \/ queueClosed /\ eventQueue = <<>>
    /\ wk' = [wk EXCEPT ![w].pc = "exited"]
    /\ UNCHANGED <<probe, queuedAtStop, gatewayVars, clientVars, adapterVars>>

\* ProcessEvent's final select has a case for the reply timer and one for the
\* context: either can be taken while the call is blocked in it
TimerFires(w) == wk[w].pc = "blocked"

\* the 30 s processing context of processEvent expires while ProcessEvent is
\* blocked in its final select: case <-ctx.Done()
CtxTimeout(w) ==
    /\ TimerFires(w)
    /\ wk' = [wk EXCEPT ![w] =
                 [wk[w] EXCEPT !.ctxDone = TRUE, !.pc = "return", !.res = "errCtx"]]
    /\ UNCHANGED <<probe, queuedAtStop, gatewayVars, clientVars, adapterVars>>

(***************************************************************************)
(* OpenclawClient.ProcessEvent                                             *)
(***************************************************************************)
\* a send on ResponseCh of context c: handed to the receiver blocked in the
\* final select, else buffered if the slot is free, else dropped
BlockedOn(c) == {w \in Workers : wk[w].ev = c /\ wk[w].pc = "blocked"}

Accepted(c) == BlockedOn(c) # {} \/ responseCh[c] = NoIntent

\* a send that replaces what the slot holds
ChAfterSendOverwrite(c, intent) ==
    IF BlockedOn(c) = {} THEN [responseCh EXCEPT ![c] = intent] ELSE responseCh

ChAfterSend(c, intent) ==
    IF BlockedOn(c) = {} /\ responseCh[c] = NoIntent
    THEN [responseCh EXCEPT ![c] = intent]
    ELSE responseCh

WkAfterSend(base, c, intent) ==
    [w \in Workers |->
        IF w \in BlockedOn(c)
        THEN [base[w] EXCEPT !.pc = "return", !.res = "intent", !.intent = intent]
        ELSE base[w]]

\* c.pending[conversationKey] = pendingCtx
RegPending(w) ==
    /\ wk[w].pc = "regPending"
    /\ pending' = Put(pending, events[wk[w].ev].session, wk[w].ev)
    /\ wk' = [wk EXCEPT ![w].pc = "regSession"]
    /\ UNCHANGED <<probe, queuedAtStop, gatewayVars, closed, sessionCtx, responseCh, outboundCallback,
                   delivered, returned, nCallbacks, nClears, adapterVars>>

\* a registration that stores the context under the session id only
SessionEntriesNoUser(m, ev, c) == Put(m, ev.session, c)

\* c.sessionCtx[conversationKey] = pendingCtx; c.sessionCtx[userID] = pendingCtx
SessionEntries(m, ev, c) == Put(Put(m, ev.session, c), ev.user, c)

RegSession(w) ==
    /\ wk[w].pc = "regSession"
    /\ sessionCtx' = SessionEntries(sessionCtx, events[wk[w].ev], wk[w].ev)
    /\ wk' = [wk EXCEPT ![w].pc = "attempt"]
    /\ UNCHANGED <<probe, queuedAtStop, gatewayVars, closed, pending, responseCh, outboundCallback,
                   delivered, returned, nCallbacks, nClears, adapterVars>>

\* what one sendToOpenclaw call can meet: the webhook accepts; the webhook fails
\* and chat completions answers with a choice, or with none; both fail
SendOutcomes == {"webhook", "chat", "chatEmpty", "fail"}

Succeeds(o) == o # "fail"

\* what the backend's two endpoints answer in an attempt of behaviour o
Answers(o) ==
    [webhook |-> IF o = "webhook" THEN "ok" ELSE "fail",
     chat |-> IF o \in {"webhook", "chat"} THEN "choice"
              ELSE IF o = "chatEmpty" THEN "noChoice" ELSE "fail"]

\* a send that posts to both endpoints and reports the second one
sendToOpenclawBoth(ans) ==
    [issued |-> <<"webhook", "chatCompletions">>,
     outcome |-> IF ans.chat = "choice" THEN "chat"
                 ELSE IF ans.chat = "noChoice" THEN "chatEmpty" ELSE "fail"]

\* sendToOpenclaw: the webhook request first; chat completions if it failed
sendToOpenclaw(ans) ==
    IF ans.webhook = "ok"
    THEN [issued |-> <<"webhook">>, outcome |-> "webhook"]
    ELSE [issued |-> <<"webhook", "chatCompletions">>,
          outcome |-> IF ans.chat = "choice" THEN "chat"
                      ELSE IF ans.chat = "noChoice" THEN "chatEmpty" ELSE "fail"]

\* the backend's answers to the attempts of one call, should they all be made
FailsThen(k, o) == [i \in 1..(MaxRetries + 1) |-> IF i = k + 1 THEN o ELSE "fail"]

OutcomeSeqs ==
    [1..(MaxRetries + 1) -> {"fail", "webhook"}]
        \cup {FailsThen(k, o) : k \in 0..MaxRetries, o \in {"chat", "chatEmpty"}}

\* the backoff select at which ctx.Done() is ready; NoCancel when at none
NoCancel == MaxRetries + 1

\* the loop condition of `for attempt := 0; attempt <= c.config.MaxRetries; attempt++`
LoopContinues(attempt) == attempt <= MaxRetries

\* backoff before attempt number `attempt` (> 0), in milliseconds
RECURSIVE Pow2(_)
Pow2(n) == IF n = 0 THEN 1 ELSE 2 * Pow2(n - 1)

\* a backoff that grows by 100 ms per retry instead of doubling
BackoffLinear(attempt) == attempt * 100

Backoff(attempt) == Pow2(attempt - 1) * 100

\* a retry loop whose backoff waits out the timer whatever the context does
RECURSIVE RetryLoopNoCancel(_, _, _, _)
RetryLoopNoCancel(attempt, st, outs, cancelAt) ==
    IF attempt > MaxRetries
    THEN [st EXCEPT !.exit = "end"]
    ELSE LET waited == IF attempt > 0
                       THEN [st EXCEPT !.backoffs = Append(@, Pow2(attempt - 1) * 100)]
                       ELSE st
             tried == [waited EXCEPT !.outcomes = Append(@, outs[attempt + 1])]
         IN  IF outs[attempt + 1] # "fail"
             THEN [tried EXCEPT !.exit = "break"]
             ELSE RetryLoopNoCancel(attempt + 1, [tried EXCEPT !.lastErr = TRUE],
                                    outs, cancelAt)

\* the retry loop of OpenclawClient.ProcessEvent from `attempt` on; st carries
\* the outcomes of the sends made, the backoffs waited and lastErr
RECURSIVE RetryLoop(_, _, _, _)
RetryLoop(attempt, st, outs, cancelAt) ==
    IF ~LoopContinues(attempt)
    THEN [st EXCEPT !.exit = "end"]
    ELSE IF attempt > 0 /\ cancelAt <= attempt
    THEN [st EXCEPT !.exit = "cancelled"]
    ELSE LET waited == IF attempt > 0
                       THEN [st EXCEPT !.backoffs = Append(@, Backoff(attempt))]
                       ELSE st
             call == sendToOpenclaw(Answers(outs[attempt + 1]))
             tried == [waited EXCEPT
                          !.outcomes = Append(@, call.outcome),
                          !.requests = Append(@, [ans |-> Answers(outs[attempt + 1]),
                                                  issued |-> call.issued])]
         IN  IF Succeeds(call.outcome)
             THEN [tried EXCEPT !.exit = "break"]
             ELSE RetryLoop(attempt + 1, [tried EXCEPT !.lastErr = TRUE], outs, cancelAt)

\* `if lastErr != nil { return nil, fmt.Errorf("all retries exhausted: ...") }`
AfterLoop(lastErr) == IF lastErr THEN "errExhausted" ELSE "none"

\* deliverResponse: the context is looked up in c.pending by conversation id
DeliverTarget(conversationID) ==
    IF conversationID \in DOMAIN pending THEN pending[conversationID] ELSE 0

ReplyText(o) == IF o = "webhook" THEN PlaceholderText ELSE ChatText

\* the send phase of ProcessEvent: the retry loop, the deliverResponse of the
\* attempt that succeeded, and the test of lastErr
Send(w, outs, cancelAt) ==
    /\ wk[w].pc = "attempt"
    /\ cancelAt # NoCancel => \A i \in 1..cancelAt : outs[i] = "fail"
    /\ LET c == wk[w].ev
           ev == events[c]
           run == RetryLoop(0, [outcomes |-> <<>>, requests |-> <<>>, backoffs |-> <<>>,
                                lastErr |-> FALSE, exit |-> "none"], outs, cancelAt)
           o == run.outcomes[Len(run.outcomes)]
           res == IF run.exit = "cancelled" THEN "errCtx" ELSE AfterLoop(run.lastErr)
           me == [wk[w] EXCEPT !.outcomes = run.outcomes, !.requests = run.requests,
                               !.backoffs = run.backoffs,
                               !.lastErr = run.lastErr,
                               !.ctxDone = @ \/ run.exit = "cancelled",
                               !.cancelAt = IF cancelAt = NoCancel THEN 0 ELSE cancelAt,
                               !.res = res,
                               !.pc = IF res = "none" THEN "waitEnter" ELSE "return"]
           base == [wk EXCEPT ![w] = me]
           t == DeliverTarget(ev.session)
           intent == NewInteractionIntent("reply", ReplyText(o), ev.session, c)
       IN  IF run.exit = "break" /\ o \in {"webhook", "chat"} /\ t # 0
           THEN /\ responseCh' = ChAfterSend(t, intent)
                /\ wk' = WkAfterSend(base, t, intent)
           ELSE /\ wk' = base
                /\ UNCHANGED responseCh
    /\ UNCHANGED <<probe, queuedAtStop, gatewayVars, closed, pending, sessionCtx, outboundCallback,
                   delivered, returned, nCallbacks, nClears, adapterVars>>

\* the final select is entered: a ready case is taken (either one when both the
\* slot and ctx.Done() are ready, the context having expired since the loop),
\* else the call blocks
WaitEnter(w) ==
    /\ wk[w].pc = "waitEnter"
    /\ LET c == wk[w].ev
       IN  \/ /\ responseCh[c] # NoIntent
              /\ wk' = [wk EXCEPT ![w] = [wk[w] EXCEPT !.pc = "return", !.res = "intent",
                                                       !.intent = responseCh[c]]]
              /\ responseCh' = [responseCh EXCEPT ![c] = NoIntent]
           \/ /\ wk' = [wk EXCEPT ![w] = [wk[w] EXCEPT !.ctxDone = TRUE, !.pc = "return",
                                                       !.res = "errCtx"]]
              /\ UNCHANGED responseCh
           \/ /\ responseCh[c] = NoIntent
              /\ wk' = [wk EXCEPT ![w].pc = "blocked"]
              /\ UNCHANGED responseCh
    /\ UNCHANGED <<probe, queuedAtStop, gatewayVars, closed, pending, sessionCtx, outboundCallback,
                   delivered, returned, nCallbacks, nClears, adapterVars>>

\* case <-time.After(100 * time.Millisecond): "no response from OpenClaw"
WaitTimeout(w) ==
    /\ TimerFires(w)
    /\ wk' = [wk EXCEPT ![w] = [wk[w] EXCEPT !.pc = "return", !.res = "errNoResponse"]]
    /\ UNCHANGED <<probe, queuedAtStop, gatewayVars, clientVars, adapterVars>>

(***************************************************************************)
(* the rest of processEvent: deferred cleanup of ProcessEvent, error       *)
(* intent, degradation, LocalAdapter.SendIntent                            *)
(***************************************************************************)
\* a call that leaves its entry behind
DeferredDeleteKept(m, res, conversationKey) == m

\* the deferred delete(c.pending, conversationKey); not installed when the call
\* returned "client is closed"
DeferredDelete(m, res, conversationKey) ==
    IF res = "errClosed" THEN m ELSE Delete(m, conversationKey)

\* the intent processEvent goes on with: the client's, or the error intent
ResultIntent(res, intent, ev) ==
    IF res = "intent"
    THEN intent
    ELSE NewInteractionIntent("reply", ApologyText, ev.session, ev.interactionId)

\* a connection is registered for the session and its sendCh has room
HasRoom(sessionID) ==
    sessionID \in DOMAIN wsConns /\ Len(wsConns[sessionID]) < SendChCap

\* LocalAdapter.SendIntent: what the call can do with the intent
SendIntentResults(intent, ctxDone) ==
    IF intent.targetSessionId \notin DOMAIN wsConns
    THEN {"noConn"}
    ELSE LET room == HasRoom(intent.targetSessionId)
         IN  (IF room THEN {"queued"} ELSE {})
             \cup (IF ctxDone THEN {"ctxErr"} ELSE {})
             \cup (IF ~room /\ ~ctxDone THEN {"full"} ELSE {})

\* a routing that hands the intent to every registered adapter
RouteToAll(registered, adapterName) == registered

\* processEvent: the adapters whose SendIntent is called for an event that
\* entered through adapterName: the one registered under that name, if any
RouteTo(registered, adapterName) ==
    IF adapterName \in registered THEN {adapterName} ELSE {}

Finish(w) ==
    /\ wk[w].pc = "return"
    /\ LET ev == events[wk[w].ev]
           intent == applyDegradation(ev.capabilities,
                                      ResultIntent(wk[w].res, wk[w].intent, ev))
       IN  /\ pending' = DeferredDelete(pending, wk[w].res, ev.session)
           /\ IF RouteTo(adapters, ev.adapterName) = {}
              THEN UNCHANGED <<wsConns, sent>>
              ELSE \E r \in SendIntentResults(intent, wk[w].ctxDone) :
                    /\ wsConns' = IF r = "queued"
                                  THEN [wsConns EXCEPT ![intent.targetSessionId] =
                                                           Append(@, intent)]
                                  ELSE wsConns
                    /\ sent' = Append(sent, [adapter |-> ev.adapterName,
                                             ev |-> ev.interactionId,
                                             res |-> wk[w].res,
                                             room |-> HasRoom(intent.targetSessionId),
                                             intent |-> intent, result |-> r])
    /\ wk' = [wk EXCEPT ![w] = [IdleWorker EXCEPT !.pc = "idle"]]
    /\ UNCHANGED <<probe, queuedAtStop, gatewayVars, closed, sessionCtx, responseCh, outboundCallback,
                   delivered, returned, nCallbacks, nClears, frontend>>

\* a parse that splits at the last colon
LastColon(to) ==
    IF \E i \in 1..Len(to) : to[i] = ":"
    THEN CHOOSE i \in 1..Len(to) : to[i] = ":" /\ \A j \in (i + 1)..Len(to) : to[j] # ":"
    ELSE 0

(***************************************************************************)
(* OpenclawClient.HandleCallback and the session map's public operations   *)
(***************************************************************************)
\* index of the first ':' of `to`, 0 when there is none
FirstColon(to) ==
    IF \E i \in 1..Len(to) : to[i] = ":"
    THEN CHOOSE i \in 1..Len(to) : to[i] = ":" /\ \A j \in 1..(i - 1) : to[j] # ":"
    ELSE 0

ConversationID(to) ==
    IF FirstColon(to) = 0 THEN to ELSE SubSeq(to, FirstColon(to) + 1, Len(to))

ToType(to) ==
    IF FirstColon(to) = 0 THEN <<>> ELSE SubSeq(to, 1, FirstColon(to) - 1)

\* a lookup that consults the in-flight map only
LookupContextPendingOnly(conversationID) ==
    IF conversationID \in DOMAIN pending THEN pending[conversationID] ELSE 0

\* the context HandleCallback finds: c.pending first, then c.sessionCtx; 0 if none
LookupContext(conversationID) ==
    IF conversationID \in DOMAIN pending THEN pending[conversationID]
    ELSE IF conversationID \in DOMAIN sessionCtx THEN sessionCtx[conversationID]
    ELSE 0

\* a response built without the thread of the callback
OutboundResponseNoThread(cb, c) ==
    [to |-> cb.to, text |-> cb.text, mediaUrl |-> cb.mediaUrl, replyToId |-> cb.replyToId,
     threadId |-> "",
     channelId |-> IF c = 0 THEN <<>> ELSE events[c].channelId,
     userId |-> IF c = 0 THEN <<>> ELSE events[c].user,
     sessionId |-> IF c = 0 THEN <<>> ELSE events[c].session]

OutboundResponseOf(cb, c) ==
    [to |-> cb.to, text |-> cb.text, mediaUrl |-> cb.mediaUrl, replyToId |-> cb.replyToId,
     threadId |-> cb.threadId,
     channelId |-> IF c = 0 THEN <<>> ELSE events[c].channelId,
     userId |-> IF c = 0 THEN <<>> ELSE events[c].user,
     sessionId |-> IF c = 0 THEN <<>> ELSE events[c].session]

CallbackIntent(cb) ==
    LET i == NewInteractionIntent("reply", cb.text, ConversationID(cb.to), cb.replyToId)
    IN  IF cb.mediaUrl # ""
        THEN [i EXCEPT !.attachments = Append(@, [type |-> "media", url |-> cb.mediaUrl])]
        ELSE i

\* calls that have registered their context and have not reached a result
Outstanding == {"regSession", "attempt", "waitEnter", "blocked"}

\* the events of conversation id whose ProcessEvent has registered a context
KnownEvents(conversationID) ==
    {e \in DOMAIN events :
        /\ conversationID \in {events[e].session, events[e].user}
        /\ \/ \E w \in Workers : wk[w].ev = e /\ wk[w].pc \in Outstanding \cup {"return"}
           \/ \E i \in DOMAIN sent : sent[i].ev = e /\ sent[i].res # "errClosed"}

\* those whose ProcessEvent has returned by reply timeout
TimedOutEvents(conversationID) ==
    {e \in KnownEvents(conversationID) :
        \E i \in DOMAIN sent : sent[i].ev = e /\ sent[i].res = "errNoResponse"}

HandleCallback(cb) ==
    /\ nCallbacks < MaxCallbacks
    /\ nCallbacks' = nCallbacks + 1
    /\ LET c == LookupContext(ConversationID(cb.to))
           resp == OutboundResponseOf(cb, c)
           noted == [w \in Workers |->
                        IF c # 0 /\ wk[w].ev = c /\ wk[w].pc \in Outstanding
                        THEN [wk[w] EXCEPT !.cbSeen = @ \cup {cb.text},
                                           !.cbTaken = IF Accepted(c)
                                                       THEN @ \cup {cb.text} ELSE @]
                        ELSE wk[w]]
       IN  /\ IF c # 0
              THEN /\ responseCh' = ChAfterSend(c, CallbackIntent(cb))
                   /\ wk' = WkAfterSend(noted, c, CallbackIntent(cb))
              ELSE UNCHANGED <<responseCh, wk>>
           /\ delivered' = IF outboundCallback THEN Append(delivered, resp) ELSE delivered
           /\ returned' = Append(returned,
                                  [resp |-> resp,
                                   known |-> KnownEvents(ConversationID(cb.to)),
                                   late |-> TimedOutEvents(ConversationID(cb.to))])
    /\ UNCHANGED <<probe, queuedAtStop, gatewayVars, closed, pending, sessionCtx, outboundCallback, nClears,
                   adapterVars>>

SetOutboundCallback ==
    /\ ~outboundCallback
    /\ events = <<>> /\ nCallbacks = 0
    /\ outboundCallback' = TRUE
    /\ UNCHANGED <<probe, queuedAtStop, gatewayVars, wk, closed, pending, sessionCtx, responseCh, delivered,
                   returned, nCallbacks, nClears, adapterVars>>

\* ClearSessionContext: the entry and every other key of the same context
ClearedMap(m, sessionID) ==
    IF sessionID \in DOMAIN m
    THEN [k \in {x \in DOMAIN m : m[x] # m[sessionID]} |-> m[k]]
    ELSE m

ClearSessionContext(sessionID) ==
    /\ nClears < MaxClears
    /\ nClears' = nClears + 1
    /\ sessionCtx' = ClearedMap(sessionCtx, sessionID)
    /\ UNCHANGED <<probe, queuedAtStop, gatewayVars, wk, closed, pending, responseCh, outboundCallback,
                   delivered, returned, nCallbacks, adapterVars>>

(***************************************************************************)
(* LocalAdapter WebSocket connections                                      *)
(***************************************************************************)
WsSessions == {S1}

\* handleWebSocket: a.wsConns[sessionID] = wsConn (a fresh send buffer)
WsConnect(s) ==
    /\ wsConns' = Put(wsConns, s, <<>>)
    /\ wsConns' # wsConns
    /\ UNCHANGED <<probe, queuedAtStop, gatewayVars, wk, clientVars, frontend, sent>>

\* wsReadPump exits: delete(a.wsConns, wsConn.sessionID)
WsDisconnect(s) ==
    /\ s \in DOMAIN wsConns
    /\ wsConns' = Delete(wsConns, s)
    /\ UNCHANGED <<probe, queuedAtStop, gatewayVars, wk, clientVars, frontend, sent>>

\* wsWritePump writes the next buffered intent to the socket
WsWrite(s) ==
    /\ s \in DOMAIN wsConns
    /\ wsConns[s] # <<>>
    /\ frontend' = frontend \cup {Head(wsConns[s])}
    /\ wsConns' = [wsConns EXCEPT ![s] = Tail(@)]
    /\ UNCHANGED <<probe, queuedAtStop, gatewayVars, wk, clientVars, sent>>

(***************************************************************************)
(* The system                                                              *)
(***************************************************************************)
\* what the workers do
WorkerStep ==
    \/ \E w \in Workers : Dequeue(w)
    \/ \E w \in Workers : RegPending(w)
    \/ \E w \in Workers : RegSession(w)
    \/ \E w \in Workers, outs \in OutcomeSeqs, cancelAt \in 1..NoCancel :
            Send(w, outs, cancelAt)
    \/ \E w \in Workers : WaitEnter(w)
    \/ \E w \in Workers : WaitTimeout(w)
    \/ \E w \in Workers : CtxTimeout(w)
    \/ \E w \in Workers : Finish(w)

\* the running gateway: messages in, backend calls, callbacks
Next ==
    \/ \E a \in AdapterNames : RegisterAdapter(a)
    \/ Start
    \/ \E req \in {Requests[i] : i \in DOMAIN Requests} : HandleMessage(req)
    \/ WorkerStep
    \/ \E cb \in Callbacks : HandleCallback(cb)
    \/ SetOutboundCallback

Spec == Init /\ [][Next]_vars

\* gateway.New with a Config of one worker or of all of them and a queue that
\* holds every message of the behaviour
OrderQueueSize == 2
ConfigProbes ==
    {[kind |-> "config", workerCount |-> n, queueSize |-> OrderQueueSize] :
        n \in 1..WorkerCount}

InitOrder == InitGateway /\ probe \in ConfigProbes

NextOrder ==
    \/ \E a \in AdapterNames : RegisterAdapter(a)
    \/ Start
    \/ \E req \in {Requests[i] : i \in DOMAIN Requests} : HandleMessage(req)
    \/ WorkerStep

SpecOrder == InitOrder /\ [][NextOrder]_vars

\* the gateway with its shutdown and the adapter's WebSocket connections
NextShutdown ==
    \/ \E a \in AdapterNames : RegisterAdapter(a)
    \/ Start
    \/ StopSignal
    \/ StopAdapters
    \/ StopClose
    \/ \E req \in {Requests[i] : i \in DOMAIN Requests} : HandleMessage(req)
    \/ WorkerStep
    \/ \E w \in Workers : WorkerExit(w)
    \/ \E s \in WsSessions : WsConnect(s)
    \/ \E s \in WsSessions : WsDisconnect(s)
    \/ \E s \in WsSessions : WsWrite(s)

SpecShutdown == Init /\ [][NextShutdown]_vars

\* the steps a worker takes by itself once it holds an event, and its exit
WorkerProgress(w) ==
    \/ RegPending(w)
    \/ RegSession(w)
    \/ \E outs \in OutcomeSeqs, cancelAt \in 1..NoCancel : Send(w, outs, cancelAt)
    \/ WaitEnter(w)
    \/ WaitTimeout(w)
    \/ CtxTimeout(w)
    \/ Finish(w)
    \/ WorkerExit(w)

\* the running gateway whose worker goroutines keep running
SpecFair ==
    /\ Init /\ [][Next]_vars
    /\ \A w \in Workers : WF_vars(WorkerProgress(w))

\* no goroutine has ended the process by a panic
Alive == \A i \in DOMAIN panicLog : ~panicLog[i].fatal

\* the gateway and its shutdown, without the adapter's connections, for as
\* long as the process lives
NextStop ==
    \/ Alive /\ \E a \in AdapterNames : RegisterAdapter(a)
    \/ Alive /\ Start
    \/ Alive /\ StopSignal
    \/ Alive /\ StopAdapters
    \/ Alive /\ StopClose
    \/ Alive /\ \E req \in {Requests[i] : i \in DOMAIN Requests} : HandleMessage(req)
    \/ Alive /\ \E w \in Workers : Dequeue(w)
    \/ Alive /\ \E w \in Workers : WorkerProgress(w)

\* Stop runs to its end (its wait is bounded by the shutdown context) and
\* every worker goroutine keeps running; nothing is assumed about receives
SpecStop ==
    /\ Init /\ [][NextStop]_vars
    /\ WF_vars(Alive /\ StopAdapters)
    /\ WF_vars(Alive /\ StopClose)
    /\ \A w \in Workers : WF_vars(Alive /\ WorkerProgress(w))

(***************************************************************************)
(* Functions applied on their own, over all their arguments                *)
(***************************************************************************)
\* applications of applyDegradation in a row
MaxApplications == 2

AllCapabilities ==
    [supportsReply : BOOLEAN, supportsEdit : BOOLEAN, supportsReaction : BOOLEAN,
     supportsThread : BOOLEAN, supportsAttachment : BOOLEAN, supportsMarkdown : BOOLEAN]

Attachment == [type |-> "media", url |-> "http://m/1"]

AllIntents ==
    [intentId : {"i1"}, intentType : {"reply", "notify"}, text : {"hello"},
     markdown : {"", "hello", "**hello**"}, attachments : {<<>>, <<Attachment>>},
     targetSessionId : {S1}, inReplyTo : {1}]

DegradationProbes ==
    {[kind |-> "applyDegradation", caps |-> c, intent |-> i, out |-> <<>>] :
        c \in AllCapabilities, i \in AllIntents}

\* processEvent's call of applyDegradation, on the intent as the last call left it
ApplyDegradation ==
    /\ probe.kind = "applyDegradation"
    /\ Len(probe.out) < MaxApplications
    /\ LET arg == IF probe.out = <<>> THEN probe.intent ELSE probe.out[Len(probe.out)]
       IN  probe' = [probe EXCEPT !.out = Append(@, applyDegradation(probe.caps, arg))]
    /\ UNCHANGED <<queuedAtStop, gatewayVars, wk, clientVars, adapterVars>>

\* inbound messages: each of sessionId, userId and channelId given or not
AllRequests == [sessionId : {<<>>, S1}, userId : {<<>>, U1}, channelId : {<<>>, <<"c1">>}]

\* handleWebSocket: the session and user of a connection, from the query or
\* generated
WsConnections ==
    {LET sessionID == IF q.sessionId = <<>> THEN Uuid(0) ELSE q.sessionId
     IN  [sessionID |-> sessionID,
          userID |-> IF q.userId = <<>> THEN <<"ws-user-">> \o sessionID ELSE q.userId] :
        q \in [sessionId : {<<>>, S1}, userId : {<<>>, U2}]}

NoEvent == [interactionId |-> 0]

\* wsReadPump: defaults from the connection, then the session id of the event
EventOfWsMessage(req, wsConn, n) ==
    LET sid == IF req.sessionId = <<>> THEN wsConn.sessionID ELSE req.sessionId
        uid == IF req.userId = <<>> THEN wsConn.userID ELSE req.userId
        sessionID == IF req.channelId # <<>> /\ sid = <<>> THEN req.channelId ELSE sid
    IN  [interactionId |-> n, session |-> sessionID, user |-> uid,
         channelId |-> req.channelId, capabilities |-> LocalCapabilities,
         adapterName |-> "local"]

NoResponse == [status |-> "none"]

\* a handler that takes a body it cannot decode for an empty message
HandleMessageResponseLenient(method, decodes) ==
    IF method # "POST"
    THEN [status |-> "405", success |-> "none", error |-> "Method not allowed"]
    ELSE [status |-> "200", success |-> "true", error |-> "none"]

\* handleMessage's answer: http.Error for a method other than POST,
\* sendErrorResponse for a body that does not decode, success otherwise
HandleMessageResponse(method, decodes) ==
    IF method # "POST"
    THEN [status |-> "405", success |-> "none", error |-> "Method not allowed"]
    ELSE IF ~decodes
    THEN [status |-> "400", success |-> "false", error |-> "PROTOCOL_ERROR"]
    ELSE [status |-> "200", success |-> "true", error |-> "none"]

\* HTTP requests: a POST with each decodable body; a POST whose body does not
\* decode; requests of another method, with a good and with a bad body
HttpRequests ==
    {[method |-> "POST", decodes |-> TRUE, req |-> r] : r \in AllRequests}
    \cup {[method |-> m, decodes |-> d, req |-> [sessionId |-> S1, userId |-> U1,
                                                channelId |-> <<>>]] :
              m \in {"POST", "GET"}, d \in BOOLEAN}

MessageProbes ==
    {[kind |-> "handleMessage", method |-> h.method, decodes |-> h.decodes,
      req |-> h.req, event |-> NoEvent, response |-> NoResponse] : h \in HttpRequests}
    \cup {[kind |-> "wsReadPump", req |-> r, wsConn |-> c, event |-> NoEvent] :
              r \in AllRequests, c \in WsConnections}

\* handleMessage on one HTTP request: the answer, and for a request it takes
\* the event it builds and hands to Gateway.handleEvent
EmitHttpEvent ==
    /\ probe.kind = "handleMessage"
    /\ probe.response = NoResponse
    /\ LET response == HandleMessageResponse(probe.method, probe.decodes)
           event == EventOfRequest(probe.req, 1)
       IN  IF response.status = "200"
           THEN /\ probe' = [probe EXCEPT !.response = response, !.event = event]
                /\ events' = Append(events, event)
                /\ handleEvent(event)
           ELSE /\ probe' = [probe EXCEPT !.response = response]
                /\ UNCHANGED <<events, eventQueue, dropLog, panicLog>>
    /\ UNCHANGED <<queuedAtStop, adapters, started, stopCh, queueClosed, stopPc, sessions,
                   wk, clientVars, adapterVars>>

\* the event wsReadPump builds of a WebSocket message
EmitWsEvent ==
    /\ probe.kind = "wsReadPump"
    /\ probe.event = NoEvent
    /\ probe' = [probe EXCEPT !.event = EventOfWsMessage(probe.req, probe.wsConn, 1)]
    /\ UNCHANGED <<queuedAtStop, gatewayVars, wk, clientVars, adapterVars>>

\* length of the longest `to` value parsed
MaxToLen == 4

RECURSIVE SeqsUpTo(_, _)
SeqsUpTo(S, n) ==
    IF n = 0 THEN {<<>>}
    ELSE LET shorter == SeqsUpTo(S, n - 1)
         IN  shorter \cup {Append(q, c) : q \in shorter, c \in S}

\* `to` values: with no colon, one colon, several colons, at either end
AllTos == SeqsUpTo({"u", ":"}, MaxToLen)

ToProbes ==
    {[kind |-> "parseTo", to |-> t, parsed |-> FALSE, conversationID |-> <<>>,
      toType |-> <<>>] : t \in AllTos}

\* HandleCallback's parse of the `to` field
ParseTo ==
    /\ probe.kind = "parseTo"
    /\ ~probe.parsed
    /\ probe' = [probe EXCEPT !.parsed = TRUE,
                              !.conversationID = ConversationID(probe.to),
                              !.toType = ToType(probe.to)]
    /\ UNCHANGED <<queuedAtStop, gatewayVars, wk, clientVars, adapterVars>>

\* names under which adapters register
AdapterPool == {"local", "slack", "teams"}

RouteProbes ==
    {[kind |-> "route", registered |-> r, adapterName |-> n, routed |-> FALSE,
      called |-> {}] : r \in SUBSET AdapterPool, n \in AdapterPool}

\* processEvent's lookup of the adapter and its SendIntent call
RouteIntent ==
    /\ probe.kind = "route"
    /\ ~probe.routed
    /\ probe' = [probe EXCEPT !.routed = TRUE,
                              !.called = RouteTo(probe.registered, probe.adapterName)]
    /\ UNCHANGED <<queuedAtStop, gatewayVars, wk, clientVars, adapterVars>>

\* the session registry with its clock: the ttl and the last instant, in ticks
SessionTTL == 2
MaxTime == 4

RegistryIds == {S1, <<"s2">>}
RegistrySessions == {"v1", "v2"}

\* a sweep that also removes the entries last seen exactly ttl ago
ExpiredAtTtl(entry, now) == now - entry.lastSeen >= SessionTTL

\* Cleanup's test: entry.lastSeen.Before(now - ttl)
Expired(entry, now) == entry.lastSeen < now - SessionTTL

\* SessionRegistry.Touch with time.Now() = now
TouchAt(reg, id, session, now) ==
    IF id \in DOMAIN reg
    THEN [reg EXCEPT ![id] = [@ EXCEPT !.lastSeen = now, !.session = session]]
    ELSE Put(reg, id, [session |-> session, createdAt |-> now, lastSeen |-> now])

\* SessionRegistry.Cleanup with time.Now() = now: the registry left and the count
CleanupAt(reg, now) ==
    LET gone == {id \in DOMAIN reg : Expired(reg[id], now)}
    IN  [sessions |-> [id \in DOMAIN reg \ gone |-> reg[id]],
         count |-> Cardinality(gone)]

RegistryProbes ==
    {[kind |-> "registry", now |-> 0, sessions |-> EmptyMap, op |-> "new",
      id |-> <<>>, count |-> 0]}

\* time passes
RegistryTick ==
    /\ probe.kind = "registry"
    /\ probe.now < MaxTime
    /\ probe' = [probe EXCEPT !.now = @ + 1, !.op = "tick", !.id = <<>>, !.count = 0]
    /\ UNCHANGED <<queuedAtStop, gatewayVars, wk, clientVars, adapterVars>>

\* processEvent touches the session of its event
RegistryTouch ==
    /\ probe.kind = "registry"
    /\ \E id \in RegistryIds, session \in RegistrySessions :
          probe' = [probe EXCEPT !.sessions = TouchAt(@, id, session, probe.now),
                                 !.op = "touch", !.id = id, !.count = 0]
    /\ UNCHANGED <<queuedAtStop, gatewayVars, wk, clientVars, adapterVars>>

\* sessionCleanup's ticker fires
RegistryCleanup ==
    /\ probe.kind = "registry"
    /\ LET swept == CleanupAt(probe.sessions, probe.now)
       IN  probe' = [probe EXCEPT !.sessions = swept.sessions, !.op = "cleanup",
                                  !.id = <<>>, !.count = swept.count]
    /\ UNCHANGED <<queuedAtStop, gatewayVars, wk, clientVars, adapterVars>>

\* the session map by itself: dispatches of events whose session ids and user
\* ids are drawn from overlapping names, clears, and callback lookups
MaxDispatches == 3
MaxMapClears == 1
MapSessions == {<<"a">>, <<"b">>}
MapUsers == {<<"a">>, <<"u">>}

\* the lookup of HandleCallback in c.sessionCtx: the context, 0 if none
SessionLookup(m, conversationID) ==
    IF conversationID \in DOMAIN m THEN m[conversationID] ELSE 0

\* NewOpenclawClient: an empty session map
SessionMapProbes ==
    {[kind |-> "sessionmap", op |-> "new", dispatched |-> <<>>, sessionCtx |-> EmptyMap,
      cleared |-> {}, key |-> <<>>, found |-> 0, nClears |-> 0]}

\* ProcessEvent registers the context of its event in c.sessionCtx
MapDispatch ==
    /\ probe.kind = "sessionmap"
    /\ Len(probe.dispatched) < MaxDispatches
    /\ \E s \in MapSessions, u \in MapUsers :
          LET ev == [session |-> s, user |-> u]
              c == Len(probe.dispatched) + 1
          IN  probe' = [probe EXCEPT !.op = "dispatch",
                                     !.dispatched = Append(@, ev),
                                     !.sessionCtx = SessionEntries(@, ev, c),
                                     !.cleared = @ \ {s},
                                     !.key = s, !.found = 0]
    /\ UNCHANGED <<queuedAtStop, gatewayVars, wk, clientVars, adapterVars>>

\* ClearSessionContext(sessionID)
MapClear ==
    /\ probe.kind = "sessionmap"
    /\ probe.nClears < MaxMapClears
    /\ \E s \in MapSessions :
          probe' = [probe EXCEPT !.op = "clear",
                                 !.sessionCtx = ClearedMap(@, s),
                                 !.cleared = @ \cup {s},
                                 !.key = s, !.found = 0, !.nClears = @ + 1]
    /\ UNCHANGED <<queuedAtStop, gatewayVars, wk, clientVars, adapterVars>>

\* HandleCallback for `to` = "user:<id>" with no call in flight
MapCallback ==
    /\ probe.kind = "sessionmap"
    /\ \E u \in MapUsers :
          probe' = [probe EXCEPT !.op = "callback", !.key = u,
                                 !.found = SessionLookup(probe.sessionCtx, u)]
    /\ UNCHANGED <<queuedAtStop, gatewayVars, wk, clientVars, adapterVars>>

\* the retry loop of HTTPClient.ProcessEvent from `attempt` on, its context
\* never done: `if err == nil { return intent, nil }`, and after the loop
\* "all retries exhausted"
RECURSIVE HTTPClientRetry(_, _, _)
HTTPClientRetry(attempt, limit, outs) ==
    IF ~(attempt <= limit)
    THEN [attempts |-> attempt, result |-> "errExhausted"]
    ELSE IF outs[attempt + 1] # "fail"
    THEN [attempts |-> attempt + 1, result |-> "none"]
    ELSE HTTPClientRetry(attempt + 1, limit, outs)

\* the retry loop of Notifier.Notify from `attempt` on, its context never
\* done: `if err == nil { ...; return nil }`, and after the loop "all retries
\* exhausted"
RECURSIVE NotifyRetry(_, _, _)
NotifyRetry(attempt, limit, outs) ==
    IF ~(attempt <= limit)
    THEN [attempts |-> attempt, result |-> "errExhausted"]
    ELSE IF outs[attempt + 1] # "fail"
    THEN [attempts |-> attempt + 1, result |-> "none"]
    ELSE NotifyRetry(attempt + 1, limit, outs)

\* the send phase of OpenclawClient.ProcessEvent, its context never done
OpenclawRetry(outs) ==
    LET run == RetryLoop(0, [outcomes |-> <<>>, requests |-> <<>>, backoffs |-> <<>>,
                             lastErr |-> FALSE, exit |-> "none"], outs, NoCancel)
    IN  [attempts |-> Len(run.outcomes), result |-> AfterLoop(run.lastErr)]

NoRun == [attempts |-> 0, result |-> "none"]

\* one sequence of per-attempt outcomes given to the three loops, the retry
\* limit of each being MaxRetries
RetryProbes ==
    {[kind |-> "retry", op |-> "new", outs |-> o,
      openclaw |-> NoRun, http |-> NoRun, notify |-> NoRun] : o \in OutcomeSeqs}

RunRetryLoops ==
    /\ probe.kind = "retry" /\ probe.op = "new"
    /\ probe' = [probe EXCEPT !.op = "run",
                              !.openclaw = OpenclawRetry(probe.outs),
                              !.http = HTTPClientRetry(0, MaxRetries, probe.outs),
                              !.notify = NotifyRetry(0, MaxRetries, probe.outs)]
    /\ UNCHANGED <<queuedAtStop, gatewayVars, wk, clientVars, adapterVars>>

InitFunctions ==
    InitGateway /\ probe \in DegradationProbes \cup MessageProbes \cup ToProbes
                                \cup RouteProbes \cup RegistryProbes
                                \cup SessionMapProbes \cup RetryProbes

NextFunctions ==
    \/ ApplyDegradation
    \/ EmitHttpEvent
    \/ EmitWsEvent
    \/ ParseTo
    \/ RouteIntent
    \/ RegistryTick
    \/ RegistryTouch
    \/ RegistryCleanup
    \/ MapDispatch
    \/ MapClear
    \/ MapCallback
    \/ RunRetryLoops

SpecFunctions == InitFunctions /\ [][NextFunctions]_vars

(***************************************************************************)
(* transport: WebSocketServer and PollingServer                            *)
(***************************************************************************)
OutQueueCap == 2        \* capacity of WebSocketServer.outQueue (100 in the source)
PollBufferCap == 3      \* messages PollingServer.Send keeps (1000 in the source)
MaxSends == 4           \* Send calls on one transport in one behaviour
MaxInbound == 1         \* posts to the inbound endpoint in one behaviour
MaxClock == 3           \* milliseconds that pass on the polling server's clock

WsConnIds == {"k1", "k2"}

\* json.Marshal of a Message: the fields in the order of the struct
Marshal(msg) == <<"messageId", msg.id, "timestamp", msg.timestamp>>

\* a Send that waits for room: the message is queued whatever the length
WsSendWaiting(outQueue, msg) ==
    [outQueue |-> Append(outQueue, msg), err |-> FALSE]

\* WebSocketServer.Send: `select { case ws.outQueue <- msg: ...; default: ... }`
WsSendResult(outQueue, msg) ==
    IF Len(outQueue) < OutQueueCap
    THEN [outQueue |-> Append(outQueue, msg), err |-> FALSE]
    ELSE [outQueue |-> outQueue, err |-> TRUE]

\* WebSocketServer.broadcast: one WriteMessage per connection of ws.conns
BroadcastWrites(conns, msg) == {<<c, Marshal(msg)>> : c \in conns}

NoMessage == [id |-> 0, timestamp |-> 0]

\* NewWebSocketServer followed by Start
WsProbes ==
    {[kind |-> "ws", op |-> "new", conns |-> {}, outQueue |-> <<>>, err |-> FALSE,
      msg |-> NoMessage, writes |-> {}, stopped |-> FALSE, loop |-> TRUE, nSent |-> 0]}

WsServerSend ==
    /\ probe.kind = "ws"
    /\ probe.nSent < MaxSends
    /\ LET msg == [id |-> probe.nSent + 1, timestamp |-> 0]
           r == WsSendResult(probe.outQueue, msg)
       IN  probe' = [probe EXCEPT !.op = "send", !.outQueue = r.outQueue, !.err = r.err,
                                  !.msg = msg, !.writes = {}, !.nSent = @ + 1]
    /\ UNCHANGED <<queuedAtStop, gatewayVars, wk, clientVars, adapterVars>>

\* handleConnection: the upgraded connection joins ws.conns
handleConnection(c) ==
    /\ probe.kind = "ws"
    /\ c \notin probe.conns
    /\ probe' = [probe EXCEPT !.op = "connect", !.conns = @ \cup {c}, !.err = FALSE,
                              !.msg = NoMessage, !.writes = {}]
    /\ UNCHANGED <<queuedAtStop, gatewayVars, wk, clientVars, adapterVars>>

\* readLoop returns (read error or stopCh): the deferred function removes the
\* connection
readLoopExit(c) ==
    /\ probe.kind = "ws"
    /\ c \in probe.conns
    /\ probe' = [probe EXCEPT !.op = "disconnect", !.conns = @ \ {c}, !.err = FALSE,
                              !.msg = NoMessage, !.writes = {}]
    /\ UNCHANGED <<queuedAtStop, gatewayVars, wk, clientVars, adapterVars>>

\* broadcastLoop takes the `msg := <-ws.outQueue` case and broadcasts
broadcastLoopTake ==
    /\ probe.kind = "ws"
    /\ probe.loop
    /\ probe.outQueue # <<>>
    /\ probe' = [probe EXCEPT !.op = "broadcast", !.outQueue = Tail(@), !.err = FALSE,
                              !.msg = Head(probe.outQueue),
                              !.writes = BroadcastWrites(probe.conns, Head(probe.outQueue))]
    /\ UNCHANGED <<queuedAtStop, gatewayVars, wk, clientVars, adapterVars>>

\* WebSocketServer.Stop closes stopCh and the connections
WsServerStop ==
    /\ probe.kind = "ws"
    /\ ~probe.stopped
    /\ probe' = [probe EXCEPT !.op = "stop", !.stopped = TRUE, !.err = FALSE,
                              !.msg = NoMessage, !.writes = {}]
    /\ UNCHANGED <<queuedAtStop, gatewayVars, wk, clientVars, adapterVars>>

\* broadcastLoop takes the `<-ws.stopCh` case
broadcastLoopExit ==
    /\ probe.kind = "ws"
    /\ probe.stopped /\ probe.loop
    /\ probe' = [probe EXCEPT !.op = "loopExit", !.loop = FALSE, !.err = FALSE,
                              !.msg = NoMessage, !.writes = {}]
    /\ UNCHANGED <<queuedAtStop, gatewayVars, wk, clientVars, adapterVars>>

\* the last n elements of q: `ps.queue[len(ps.queue)-n:]`
LastN(q, n) == IF Len(q) > n THEN SubSeq(q, Len(q) - n + 1, Len(q)) ELSE q

\* a buffer that drops the newest message when it is full
PollSendKeepOldest(queue, msg, now) ==
    LET stamped == IF msg.timestamp = 0 THEN [msg EXCEPT !.timestamp = now] ELSE msg
    IN  IF Len(queue) >= PollBufferCap THEN queue ELSE Append(queue, stamped)

\* PollingServer.Send with time.Now().UnixMilli() = now
PollSendResult(queue, msg, now) ==
    LET stamped == IF msg.timestamp = 0 THEN [msg EXCEPT !.timestamp = now] ELSE msg
    IN  LastN(Append(queue, stamped), PollBufferCap)

\* `fmt.Sscanf(sinceStr, "%d", &since)` of the query value, absent or a number
ParseSince(q) == IF q = <<>> THEN 0 ELSE q[1]

\* handlePoll's loop: the messages with `msg.Timestamp > since`
NewerThan(queue, since) == SelectSeq(queue, LAMBDA m : m.timestamp > since)

\* the identifier handleInbound generates: "msg-<UnixNano>"
GeneratedId(now) == 100 + now

\* handleInbound: status, the message given to the handler, the buffer (no
\* statement of the function touches ps.queue)
HandleInboundResult(queue, method, decodes, msg, now, handlerSet, handlerErr) ==
    LET stamped == IF msg.timestamp = 0 THEN [msg EXCEPT !.timestamp = now] ELSE msg
        named == IF stamped.id = 0 THEN [stamped EXCEPT !.id = GeneratedId(now)] ELSE stamped
    IN  IF method # "POST"
        THEN [status |-> 405, handled |-> <<>>, queue |-> queue, msg |-> NoMessage]
        ELSE IF ~decodes
        THEN [status |-> 400, handled |-> <<>>, queue |-> queue, msg |-> NoMessage]
        ELSE [status |-> IF handlerSet /\ handlerErr THEN 500 ELSE 200,
              handled |-> IF handlerSet THEN <<named>> ELSE <<>>,
              queue |-> queue,
              msg |-> named]

SeqIds(q) == {q[i].id : i \in DOMAIN q}

MaxStamp(q, least) ==
    LET stamps == {q[i].timestamp : i \in DOMAIN q} \cup {least}
    IN  CHOOSE t \in stamps : \A u \in stamps : u <= t

\* NewPollingServer, with or without SetHandler; the clock starts at 1; the
\* clients of the behaviour are arbitrary requests or one poller that follows
\* its watermark
PollProbes ==
    {[kind |-> "poll", op |-> "new", queue |-> <<>>, now |-> 1, msg |-> NoMessage,
      since |-> 0, response |-> <<>>, status |-> 0, handlerSet |-> h, handled |-> <<>>,
      client |-> "any", watermark |-> 0, got |-> {}, nSent |-> 0, nInbound |-> 0] :
        h \in BOOLEAN}
    \cup
    {[kind |-> "poll", op |-> "new", queue |-> <<>>, now |-> 1, msg |-> NoMessage,
      since |-> 0, response |-> <<>>, status |-> 0, handlerSet |-> FALSE, handled |-> <<>>,
      client |-> "follower", watermark |-> 0, got |-> {}, nSent |-> 0, nInbound |-> 0]}

\* a millisecond passes
PollTick ==
    /\ probe.kind = "poll"
    /\ probe.now < MaxClock
    /\ probe' = [probe EXCEPT !.op = "tick", !.now = @ + 1, !.msg = NoMessage, !.since = 0,
                              !.response = <<>>, !.status = 0, !.handled = <<>>]
    /\ UNCHANGED <<queuedAtStop, gatewayVars, wk, clientVars, adapterVars>>

\* PollingServer.Send of a message without or with a timestamp
PollSend ==
    /\ probe.kind = "poll"
    /\ probe.nSent < MaxSends
    /\ \E ts \in 0..MaxClock :
          LET msg == [id |-> probe.nSent + 1, timestamp |-> ts]
          IN  probe' = [probe EXCEPT !.op = "send", !.msg = msg,
                                     !.queue = PollSendResult(@, msg, probe.now), !.since = 0,
                                     !.response = <<>>, !.status = 0, !.handled = <<>>,
                                     !.nSent = @ + 1]
    /\ UNCHANGED <<queuedAtStop, gatewayVars, wk, clientVars, adapterVars>>

\* handlePoll for a request of any method and any `since`
HandlePoll ==
    /\ probe.kind = "poll" /\ probe.client = "any"
    /\ \E method \in {"GET", "POST"}, q \in {<<>>} \cup {<<n>> : n \in 0..MaxClock} :
          probe' = [probe EXCEPT !.op = "poll", !.msg = NoMessage,
                                 !.since = ParseSince(q),
                                 !.response = IF method = "GET"
                                              THEN NewerThan(probe.queue, ParseSince(q))
                                              ELSE <<>>,
                                 !.status = IF method = "GET" THEN 200 ELSE 405,
                                 !.handled = <<>>]
    /\ UNCHANGED <<queuedAtStop, gatewayVars, wk, clientVars, adapterVars>>

\* a client polls with `since` = the largest timestamp it has received
FollowerPoll ==
    /\ probe.kind = "poll" /\ probe.client = "follower"
    /\ LET res == NewerThan(probe.queue, probe.watermark)
       IN  probe' = [probe EXCEPT !.op = "follow", !.msg = NoMessage,
                                  !.since = probe.watermark,
                                  !.response = res, !.status = 200, !.handled = <<>>,
                                  !.got = @ \cup SeqIds(res),
                                  !.watermark = MaxStamp(res, @)]
    /\ UNCHANGED <<queuedAtStop, gatewayVars, wk, clientVars, adapterVars>>

\* handleInbound for a request of any method, body and handler outcome
HandleInbound ==
    /\ probe.kind = "poll" /\ probe.client = "any"
    /\ probe.nInbound < MaxInbound
    /\ \E method \in {"POST", "GET"}, decodes \in BOOLEAN, id \in {0, 9},
          ts \in {0, MaxClock}, handlerErr \in BOOLEAN :
          LET r == HandleInboundResult(probe.queue, method, decodes,
                                       [id |-> id, timestamp |-> ts], probe.now,
                                       probe.handlerSet, handlerErr)
          IN  probe' = [probe EXCEPT !.op = "inbound", !.msg = r.msg, !.queue = r.queue, !.since = 0,
                                     !.response = <<>>, !.status = r.status,
                                     !.handled = r.handled, !.nInbound = @ + 1]
    /\ UNCHANGED <<queuedAtStop, gatewayVars, wk, clientVars, adapterVars>>

InitTransport == InitGateway /\ probe \in WsProbes \cup PollProbes

NextTransport ==
    \/ WsServerSend
    \/ \E c \in WsConnIds : handleConnection(c)
    \/ \E c \in WsConnIds : readLoopExit(c)
    \/ broadcastLoopTake
    \/ WsServerStop
    \/ broadcastLoopExit
    \/ PollTick
    \/ PollSend
    \/ HandlePoll
    \/ FollowerPoll
    \/ HandleInbound

SpecTransport == InitTransport /\ [][NextTransport]_vars

\* the poller keeps polling
SpecPoller == InitTransport /\ [][NextTransport]_vars /\ WF_vars(FollowerPoll)

(***************************************************************************)
(* LocalAdapter: the WebSocket connections, one by one                     *)
(***************************************************************************)
ConnIds == {"c1", "c2"}
ConnSessions == {S1, <<"s2">>}

\* a wsConnection that handleWebSocket has not created yet
NoConn == [session |-> <<>>, open |-> FALSE, pump |-> "none", doneCloses |-> 0]

\* `close(conn.done)`: the second close of a channel panics
Panics(conn) == conn.doneCloses >= 1

\* NewLocalAdapter
AdapterProbes ==
    {[kind |-> "adapter", op |-> "new", started |-> FALSE,
      conns |-> [c \in ConnIds |-> NoConn], wsConns |-> EmptyMap,
      panicked |-> FALSE, target |-> <<>>, reached |-> "none"]}

\* LocalAdapter.Start
AdapterStart ==
    /\ probe.kind = "adapter" /\ ~probe.panicked
    /\ ~probe.started
    /\ probe' = [probe EXCEPT !.op = "start", !.started = TRUE,
                              !.target = <<>>, !.reached = "none"]
    /\ UNCHANGED <<queuedAtStop, gatewayVars, wk, clientVars, adapterVars>>

\* handleWebSocket: the connection is stored under its session id and its
\* pumps are started
handleWebSocket(c, s) ==
    /\ probe.kind = "adapter" /\ ~probe.panicked
    /\ probe.conns[c] = NoConn
    /\ probe' = [probe EXCEPT !.op = "connect",
                              !.conns[c] = [session |-> s, open |-> TRUE,
                                            pump |-> "reading", doneCloses |-> 0],
                              !.wsConns = Put(@, s, c),
                              !.target = <<>>, !.reached = "none"]
    /\ UNCHANGED <<queuedAtStop, gatewayVars, wk, clientVars, adapterVars>>

\* the peer closes its socket
PeerClose(c) ==
    /\ probe.kind = "adapter" /\ ~probe.panicked
    /\ probe.conns[c].open
    /\ probe' = [probe EXCEPT !.op = "peerClose", !.conns[c].open = FALSE,
                              !.target = <<>>, !.reached = "none"]
    /\ UNCHANGED <<queuedAtStop, gatewayVars, wk, clientVars, adapterVars>>

\* wsReadPump returns after a read error on a closed socket; its deferred
\* function deletes the entry of the session and closes done
wsReadPumpExit(c) ==
    /\ probe.kind = "adapter" /\ ~probe.panicked
    /\ probe.conns[c].pump = "reading"
    /\ ~probe.conns[c].open
    /\ probe' = [probe EXCEPT !.op = "readExit",
                              !.wsConns = Delete(@, probe.conns[c].session),
                              !.conns[c].doneCloses = @ + 1,
                              !.conns[c].pump = "exited",
                              !.panicked = Panics(probe.conns[c]),
                              !.target = <<>>, !.reached = "none"]
    /\ UNCHANGED <<queuedAtStop, gatewayVars, wk, clientVars, adapterVars>>

\* LocalAdapter.Stop: for every connection of the map close(conn.done) and
\* conn.conn.Close(), then a fresh map
AdapterStop ==
    /\ probe.kind = "adapter" /\ ~probe.panicked
    /\ probe.started
    /\ LET held == {probe.wsConns[s] : s \in DOMAIN probe.wsConns}
       IN  probe' = [probe EXCEPT !.op = "stop", !.started = FALSE,
                                  !.conns = [c \in ConnIds |->
                                                IF c \in held
                                                THEN [@[c] EXCEPT !.doneCloses = @ + 1,
                                                                  !.open = FALSE]
                                                ELSE @[c]],
                                  !.wsConns = EmptyMap,
                                  !.panicked = \E c \in held : Panics(probe.conns[c]),
                                  !.target = <<>>, !.reached = "none"]
    /\ UNCHANGED <<queuedAtStop, gatewayVars, wk, clientVars, adapterVars>>

\* LocalAdapter.SendIntent: the connection found under intent.TargetSessionID
AdapterSendIntent(s) ==
    /\ probe.kind = "adapter" /\ ~probe.panicked
    /\ probe' = [probe EXCEPT !.op = "sendIntent", !.target = s,
                              !.reached = IF s \in DOMAIN probe.wsConns
                                          THEN probe.wsConns[s] ELSE "none"]
    /\ UNCHANGED <<queuedAtStop, gatewayVars, wk, clientVars, adapterVars>>

InitAdapter == InitGateway /\ probe \in AdapterProbes

NextAdapter ==
    \/ AdapterStart
    \/ \E c \in ConnIds, s \in ConnSessions : handleWebSocket(c, s)
    \/ \E c \in ConnIds : PeerClose(c)
    \/ \E c \in ConnIds : wsReadPumpExit(c)
    \/ AdapterStop
    \/ \E s \in ConnSessions : AdapterSendIntent(s)

SpecAdapter == InitAdapter /\ [][NextAdapter]_vars

(***************************************************************************)
(* Properties                                                              *)
(***************************************************************************)
\* positions of a ProcessEvent call between the registration of its context
\* in c.pending and the run of its deferred function
Registered == {"regSession", "attempt", "waitEnter", "blocked", "return"}

Last(q) == q[Len(q)]

\* the routing fields of an OutboundResponse are those of event e
RoutedAs(resp, e) ==
    /\ resp.sessionId = events[e].session
    /\ resp.userId = events[e].user
    /\ resp.channelId = events[e].channelId

\* every OutboundResponse went to the outbound callback once, if one is set
DeliveredOnce ==
    IF outboundCallback
    THEN delivered = [i \in DOMAIN returned |-> returned[i].resp]
    ELSE delivered = <<>>

\* the events that a worker has taken, or that still wait in the queue
Taken ==
    {wk[w].ev : w \in Workers} \cup {sent[i].ev : i \in DOMAIN sent}
        \cup {eventQueue[i] : i \in DOMAIN eventQueue}

\* C1: a submission that meets a full queue ends by the event being dropped
\* with the warning and nothing else: no such call ends in a panic, and no
\* dropped event is in the queue, with a worker or passed to an adapter.
C1_FullQueueDrops ==
    /\ \A i \in DOMAIN panicLog : ~panicLog[i].full
    /\ \A i \in DOMAIN dropLog : dropLog[i] \notin Taken

\* C2: for every processed event whose ProcessEvent returned an error, the
\* apology intent is passed to SendIntent and, the front-end being connected
\* with room in its buffer, is queued to it.
C2_ApologyReachesFrontEnd ==
    \A i \in DOMAIN sent :
        sent[i].res # "intent" =>
            /\ sent[i].intent.text = ApologyText
            /\ sent[i].room => sent[i].result = "queued"

\* C3: every intent passed to SendIntent for an event targets the session of
\* that event.
C3_TargetIsEventSession ==
    \A i \in DOMAIN sent :
        sent[i].intent.targetSessionId = events[sent[i].ev].session

\* C4: the intent that HandleCallback makes for the context of an event (it is
\* in that context's slot, or taken from it by the waiting call) targets the
\* session of that event.
C4_CallbackTargetsSession ==
    \A c \in DOMAIN events :
        \A i \in {responseCh[c]} \cup {wk[w].intent : w \in {v \in Workers : wk[v].ev = c}} :
            i.text \in CallbackTexts => i.targetSessionId = events[c].session

C6_LateCallbackRoutedToEvent ==
    /\ \A i \in DOMAIN returned :
            \A e \in returned[i].late : RoutedAs(returned[i].resp, e)
    /\ DeliveredOnce

\* C6: such a callback carries the routing of an event of its conversation
\* whose call had registered by then (the timed-out one when no other call
\* registered under that id), and goes to the outbound callback once.
C6_LateCallbackRouted ==
    /\ \A i \in DOMAIN returned :
            returned[i].late # {} =>
                \E e \in returned[i].known : RoutedAs(returned[i].resp, e)
    /\ DeliveredOnce

\* a late callback was routed as the timed-out event and delivered
C6_Witness ==
    /\ outboundCallback
    /\ \E i \in DOMAIN delivered :
            /\ returned[i].late # {}
            /\ \E e \in returned[i].late : RoutedAs(delivered[i], e)

\* C7 as stated: when the wait expires the call ends with the no-response
\* error and the session map holds its context under its session and user id.
C7_TimeoutKeepsOwnEntries ==
    \A w \in Workers :
        (wk[w].pc = "return" /\ wk[w].res = "errNoResponse") =>
            LET ev == events[wk[w].ev]
            IN  /\ ev.session \in DOMAIN sessionCtx /\ sessionCtx[ev.session] = wk[w].ev
                /\ ev.user \in DOMAIN sessionCtx /\ sessionCtx[ev.user] = wk[w].ev

\* C7: when the wait expires the call ends with the no-response error, and the
\* session map still has an entry under the event's session id and user id:
\* the event's context, or that of another call registered under that id.
C7_TimeoutKeepsEntries ==
    \A w \in Workers :
        (wk[w].pc = "return" /\ wk[w].res = "errNoResponse") =>
            \A k \in {events[wk[w].ev].session, events[wk[w].ev].user} :
                /\ k \in DOMAIN sessionCtx
                /\ sessionCtx[k] \in KnownEvents(k)
                /\ KnownEvents(k) = {wk[w].ev} => sessionCtx[k] = wk[w].ev

\* a call timed out and both of its keys still lead to its context
C7_Witness ==
    \E w \in Workers :
        /\ wk[w].pc = "return" /\ wk[w].res = "errNoResponse"
        /\ sessionCtx[events[wk[w].ev].session] = wk[w].ev
        /\ sessionCtx[events[wk[w].ev].user] = wk[w].ev

\* C11: a call whose context is cancelled during the backoff before attempt k
\* returns the context error having made k sends and waited out k-1 backoffs
\* (no further send, the cancelled backoff not completed); a call whose
\* context is cancelled at the final select returns the context error with no
\* intent and no further send.
C11_CancelAbortsAtOnce ==
    \A w \in Workers :
        wk[w].pc = "return" =>
            /\ wk[w].cancelAt > 0 =>
                    /\ wk[w].res = "errCtx"
                    /\ Len(wk[w].outcomes) = wk[w].cancelAt
                    /\ Len(wk[w].backoffs) = wk[w].cancelAt - 1
            /\ (wk[w].ctxDone /\ wk[w].cancelAt = 0) =>
                    /\ wk[w].res = "errCtx"
                    /\ wk[w].intent = NoIntent
                    /\ Succeeds(Last(wk[w].outcomes)) /\ ~wk[w].lastErr

\* a call cancelled in its second backoff
C11_Witness ==
    \E w \in Workers :
        /\ wk[w].pc = "return" /\ wk[w].res = "errCtx"
        /\ wk[w].cancelAt = 2 /\ Len(wk[w].outcomes) = 2

AllFailed(outcomes) == \A i \in DOMAIN outcomes : ~Succeeds(outcomes[i])

\* C12: a call ends with "all retries exhausted" exactly when every send of the
\* loop failed (only then, and always when all MaxRetries + 1 sends failed),
\* and with the reply timeout only when its last send was accepted.
C12_ExhaustedIffAllFailed ==
    \A w \in Workers :
        wk[w].pc = "return" =>
            /\ wk[w].res = "errExhausted" => AllFailed(wk[w].outcomes)
            /\ (AllFailed(wk[w].outcomes) /\ Len(wk[w].outcomes) = MaxRetries + 1)
                    => wk[w].res = "errExhausted"
            /\ wk[w].res = "errNoResponse" => Succeeds(Last(wk[w].outcomes))

\* C13: in every send attempt the webhook request is issued first, the chat
\* completions request is issued exactly when the webhook request failed, and
\* the attempt fails only when both requests failed.
C13_FallbackIffWebhookFailed ==
    \A w \in Workers :
        \A i \in DOMAIN wk[w].requests :
            LET r == wk[w].requests[i]
                chatIssued == \E j \in DOMAIN r.issued : r.issued[j] = "chatCompletions"
            IN  /\ r.issued[1] = "webhook"
                /\ chatIssued <=> r.ans.webhook = "fail"
                /\ ~Succeeds(wk[w].outcomes[i])
                        => r.ans.webhook = "fail" /\ r.ans.chat = "fail"

\* an attempt whose webhook request failed and whose fallback was answered,
\* after one whose webhook was accepted at once in another call
C13_Witness ==
    \E w \in Workers :
        \E i \in DOMAIN wk[w].requests :
            /\ wk[w].requests[i].ans.webhook = "fail"
            /\ wk[w].requests[i].issued = <<"webhook", "chatCompletions">>
            /\ wk[w].outcomes[i] = "chat"

\* C14: capability degradation is idempotent: for every combination of
\* capability flags and every intent, a second application of applyDegradation
\* leaves the intent as the first application made it.
C14_DegradationIdempotent ==
    (probe.kind = "applyDegradation" /\ Len(probe.out) = 2)
        => probe.out[2] = probe.out[1]

\* degraded twice on a platform without markdown, from an intent with markdown
C14_Witness ==
    /\ probe.kind = "applyDegradation" /\ Len(probe.out) = 2
    /\ ~probe.caps.supportsMarkdown /\ probe.intent.markdown = "**hello**"
    /\ probe.out[1] # probe.intent

C16_DegradationRules ==
    probe.kind = "applyDegradation" =>
        \A k \in DOMAIN probe.out :
            /\ probe.out[k].markdown =
                   IF probe.caps.supportsMarkdown THEN probe.intent.markdown ELSE ""
            /\ probe.out[k].attachments =
                   IF probe.caps.supportsAttachment THEN probe.intent.attachments ELSE <<>>
            /\ k = 1 => probe.out[k] =
                   stripMarkdown(probe.caps, removeAttachments(probe.caps, probe.intent))

\* attachments removed and markdown kept by one degradation
C16_Witness ==
    /\ probe.kind = "applyDegradation" /\ Len(probe.out) >= 1
    /\ ~probe.caps.supportsAttachment /\ probe.caps.supportsMarkdown
    /\ probe.intent.attachments # <<>> /\ probe.intent.markdown # ""
    /\ probe.out[1].attachments = <<>> /\ probe.out[1].markdown = probe.intent.markdown

\* C17: the event built of an inbound message, HTTP or WebSocket, that carries
\* a channel id and no session id has the channel id as its external session id.
C17_ChannelIsSessionKey ==
    (/\ probe.kind \in {"handleMessage", "wsReadPump"}
     /\ probe.event # NoEvent
     /\ probe.req.channelId # <<>>
     /\ probe.req.sessionId = <<>>)
        => probe.event.session = probe.req.channelId

\* the conversation id of the callback matches no context in either map
Unmatched(cb) ==
    /\ ConversationID(cb.to) \notin DOMAIN pending
    /\ ConversationID(cb.to) \notin DOMAIN sessionCtx

\* C18: a HandleCallback whose conversation id matches no context in the
\* in-flight map nor in the session map leaves both maps as they are and, if
\* a delivery callback is set, invokes it exactly once with the callback's
\* to, text, media and thread fields and empty channelId, userId and sessionId.
C18_UnmatchedCallbackDelivered ==
    [][\A cb \in Callbacks :
          (/\ nCallbacks' = nCallbacks + 1
           /\ Last(returned').resp.to = cb.to
           /\ Last(returned').resp.text = cb.text
           /\ Unmatched(cb))
              => /\ pending' = pending
                 /\ sessionCtx' = sessionCtx
                 /\ delivered' =
                        IF outboundCallback
                        THEN Append(delivered,
                                    [to |-> cb.to, text |-> cb.text,
                                     mediaUrl |-> cb.mediaUrl, replyToId |-> cb.replyToId,
                                     threadId |-> cb.threadId, channelId |-> <<>>,
                                     userId |-> <<>>, sessionId |-> <<>>])
                        ELSE delivered]_vars

\* a callback for a conversation of no registered context has been handed to
\* the delivery callback, with contexts of other conversations in both maps
C18_Witness ==
    /\ Len(delivered) = 1
    /\ delivered[1].to = <<"group", ":", "g1", ":", "t">>
    /\ delivered[1].sessionId = <<>> /\ delivered[1].threadId = "th1"
    /\ DOMAIN pending # {} /\ DOMAIN sessionCtx # {}

\* C19: HandleCallback splits `to` at its first colon only: the type is what
\* precedes it, the lookup key all that follows it, later colons included; a
\* `to` without a colon is the lookup key as a whole, with an empty type.
C19_SplitAtFirstColon ==
    (probe.kind = "parseTo" /\ probe.parsed) =>
        IF \A i \in DOMAIN probe.to : probe.to[i] # ":"
        THEN probe.conversationID = probe.to /\ probe.toType = <<>>
        ELSE /\ probe.toType \o <<":">> \o probe.conversationID = probe.to
             /\ \A i \in DOMAIN probe.toType : probe.toType[i] # ":"

\* a `to` with two colons, parsed: the second colon is in the lookup key
C19_Witness ==
    /\ probe.kind = "parseTo" /\ probe.parsed
    /\ probe.to = <<"u", ":", "u", ":">>
    /\ probe.conversationID = <<"u", ":">>

\* C20: once the workers have exited after Gateway.Stop, no event that was in
\* the queue when Stop was called is still in the queue: each was received by
\* a worker and reached processEvent.
C20_ShutdownDrains ==
    (stopPc # "none" /\ \A w \in Workers : wk[w].pc = "exited")
        => queuedAtStop = {}

\* C21: no handleEvent call made while or after Gateway.Stop runs sends on the
\* closed event queue: none ends in a run-time panic.
C21_NoSendOnClosedQueue ==
    \A i \in DOMAIN panicLog : FALSE

\* C22: a Gateway.Stop that has begun ends with the backend client closed,
\* whether or not the workers have exited by then, and every worker exits in
\* the end.
C22_StopTerminates ==
    (stopPc # "none") ~>
        (stopPc = "done" /\ closed /\ \A w \in Workers : wk[w].pc = "exited")

\* Start has been called on the gateway
HasStarted == started \/ stopPc # "none"

\* C23: once the gateway has started no RegisterAdapter is accepted (the
\* adapter set stays as it is), a registered adapter is never replaced or
\* removed, and a started gateway spawns no further workers.
C23_RegisterOnlyBeforeStart ==
    [][/\ HasStarted => adapters' = adapters
       /\ adapters \subseteq adapters'
       /\ started => \A w \in Workers : wk[w].pc = "exited" => wk'[w].pc = "exited"]_vars

\* C24: the intent of an event is passed to SendIntent of the adapter
\* registered under the name the event entered through and of no other; if
\* no adapter is registered under that name, no SendIntent call is made.
C24_RoutedToOwnAdapter ==
    (probe.kind = "route" /\ probe.routed) =>
        /\ \A a \in probe.called : a = probe.adapterName /\ a \in probe.registered
        /\ probe.adapterName \in probe.registered => probe.called # {}

\* three adapters registered, the intent passed to the one the event came from
C24_Witness ==
    /\ probe.kind = "route" /\ probe.routed
    /\ probe.registered = AdapterPool
    /\ probe.called = {"slack"}

\* C25: a Touch creates the entry of its session id or refreshes it: lastSeen
\* becomes the present time, createdAt stays that of the first creation, the
\* other entries stay; a Cleanup removes exactly the entries with
\* now - lastSeen > ttl, returns their number and leaves the others as they are.
C25_TouchAndSweep ==
    [][(probe.kind = "registry" /\ probe'.kind = "registry") =>
         /\ probe'.op = "touch" =>
               /\ DOMAIN probe'.sessions = DOMAIN probe.sessions \cup {probe'.id}
               /\ probe'.sessions[probe'.id].lastSeen = probe.now
               /\ probe'.sessions[probe'.id].createdAt =
                      IF probe'.id \in DOMAIN probe.sessions
                      THEN probe.sessions[probe'.id].createdAt ELSE probe.now
               /\ \A id \in DOMAIN probe.sessions \ {probe'.id} :
                      probe'.sessions[id] = probe.sessions[id]
         /\ probe'.op = "cleanup" =>
               /\ DOMAIN probe'.sessions =
                      {id \in DOMAIN probe.sessions :
                          ~(probe.now - probe.sessions[id].lastSeen > SessionTTL)}
               /\ \A id \in DOMAIN probe'.sessions :
                      probe'.sessions[id] = probe.sessions[id]
               /\ probe'.count =
                      Cardinality(DOMAIN probe.sessions \ DOMAIN probe'.sessions)]_vars

\* a sweep has removed one entry and kept one last seen exactly ttl before
C25_Witness ==
    /\ probe.kind = "registry" /\ probe.op = "cleanup" /\ probe.count = 1
    /\ \E id \in DOMAIN probe.sessions :
          /\ probe.now - probe.sessions[id].lastSeen = SessionTTL
          /\ probe.sessions[id].createdAt < probe.sessions[id].lastSeen

\* C26: the event the local adapter builds of an inbound message, HTTP or
\* WebSocket, has a non-empty external session id, whether or not the message
\* (or the connection's query) carried a session id.
C26_SessionIdNeverEmpty ==
    (probe.kind \in {"handleMessage", "wsReadPump"} /\ probe.event # NoEvent)
        => probe.event.session # <<>>

\* an HTTP message without session id, and the event built of it
C26_Witness ==
    /\ probe.kind = "handleMessage" /\ probe.event # NoEvent
    /\ probe.req.sessionId = <<>> /\ probe.req.channelId = <<>>
    /\ probe.event.session = Uuid(1)

\* C27: a request to handleMessage that is not a POST, or whose body does not
\* decode, is answered with an error and the event handler is not invoked:
\* the event queue stays as it was; the answer has success=false exactly for
\* the body that does not decode; a request that is taken is queued.
C27_MalformedRejected ==
    (probe.kind = "handleMessage" /\ probe.response # NoResponse) =>
        /\ (probe.method # "POST" \/ ~probe.decodes) =>
               /\ probe.response.status \in {"400", "405"}
               /\ probe.event = NoEvent
               /\ eventQueue = <<>> /\ events = <<>>
        /\ probe.response.success = "false" <=> (probe.method = "POST" /\ ~probe.decodes)
        /\ probe.response.success = "false" => probe.response.error = "PROTOCOL_ERROR"
        /\ (probe.method = "POST" /\ probe.decodes) =>
               /\ probe.response.success = "true"
               /\ eventQueue = <<1>>

\* a POST whose body does not decode has been answered
C27_Witness ==
    /\ probe.kind = "handleMessage"
    /\ probe.method = "POST" /\ ~probe.decodes
    /\ probe.response.status = "400" /\ probe.response.success = "false"
    /\ eventQueue = <<>>

\* the keys under which ProcessEvent registers contexts
CorrelationKeys == {S1, U1, U2}

\* C28: the in-flight map and the session map evict their entries: a key that
\* is in one of them is out of it at some later time.
C28_EntriesEvicted ==
    \A k \in CorrelationKeys :
        /\ (k \in DOMAIN pending) ~> (k \notin DOMAIN pending)
        /\ (k \in DOMAIN sessionCtx) ~> (k \notin DOMAIN sessionCtx)

\* C29: a ProcessEvent call whose webhook send was accepted returns a reply
\* intent only if a callback has arrived for it, and then the intent of that
\* callback: no reply intent exists for the event before a callback.
C29_ReplyOnlyByCallback ==
    \A w \in Workers :
        (/\ wk[w].pc = "return"
         /\ wk[w].outcomes # <<>>
         /\ Last(wk[w].outcomes) = "webhook"
         /\ wk[w].res = "intent")
            => wk[w].intent.text \in wk[w].cbSeen

\* C30: every intent that ProcessEvent returns for an event carries that
\* event's interactionId as inReplyTo, also when calls for one session overlap.
C30_ReplyMatchesEvent ==
    \A w \in Workers :
        (wk[w].pc = "return" /\ wk[w].res = "intent")
            => wk[w].intent.inReplyTo = events[wk[w].ev].interactionId

C32_PollBuffer ==
    /\ [](probe.kind = "poll" =>
             /\ Len(probe.queue) <= PollBufferCap
             /\ Len(probe.queue) = IF probe.nSent < PollBufferCap THEN probe.nSent
                                                                ELSE PollBufferCap
             /\ \A i \in DOMAIN probe.queue :
                    probe.queue[i].id = probe.nSent - Len(probe.queue) + i)
    /\ [][(probe.kind = "poll" /\ probe'.op \in {"poll", "follow"} /\ probe'.status = 200) =>
             /\ probe'.queue = probe.queue
             /\ \E picked \in SUBSET DOMAIN probe.queue :
                    /\ picked = {i \in DOMAIN probe.queue :
                                    probe.queue[i].timestamp > probe'.since}
                    /\ Len(probe'.response) = Cardinality(picked)
                    /\ \A k \in DOMAIN probe'.response :
                          \E i \in picked :
                              /\ probe'.response[k] = probe.queue[i]
                              /\ Cardinality({j \in picked : j < i}) = k - 1]_vars

C32_Witness ==
    /\ probe.kind = "poll" /\ probe.op = "poll" /\ probe.status = 200
    /\ probe.nSent > PollBufferCap
    /\ Len(probe.response) = 1 /\ probe.response[1] = probe.queue[PollBufferCap]

\* C33: a well-formed POST to the inbound endpoint puts the message into the
\* poll buffer and gives it to the configured handler before the response.
C33_InboundEnqueuesAndHandles ==
    [][(probe.kind = "poll" /\ probe'.op = "inbound" /\ probe'.msg # NoMessage) =>
          /\ \E i \in DOMAIN probe'.queue : probe'.queue[i] = probe'.msg
          /\ probe.handlerSet => probe'.handled = <<probe'.msg>>]_vars

\* C38: a client that always polls with the largest timestamp it has received
\* eventually receives every message given to PollingServer.Send, as long as
\* fewer messages than the buffer keeps have been sent.
C38_FollowerReceivesAll ==
    \A m \in 1..MaxSends :
        (probe.kind = "poll" /\ probe.client = "follower" /\ m \in SeqIds(probe.queue))
            ~> (probe.kind = "poll" /\ (m \in probe.got \/ probe.nSent >= PollBufferCap))

OneWorker == probe.kind = "config" /\ probe.workerCount = 1

C35_PendingEntryIsOwn ==
    \A w \in Workers :
        wk[w].pc \in Outstanding =>
            /\ events[wk[w].ev].session \in DOMAIN pending
            /\ pending[events[wk[w].ev].session] = wk[w].ev

\* C36: the done channel of a WebSocket connection of the local adapter is
\* closed at most once.
C36_DoneClosedOnce ==
    probe.kind = "adapter" => \A c \in ConnIds : probe.conns[c].doneCloses <= 1

\* a connection whose socket is open and whose read pump runs
Live(c) == probe.conns[c].open /\ probe.conns[c].pump = "reading"

\* C37: in a started adapter, while a connection of session s is live,
\* wsConns[s] is a connection of s whose read pump has not returned, and
\* SendIntent for s reaches it.
C37_EntryIsLive ==
    (probe.kind = "adapter" /\ probe.started) =>
        \A s \in ConnSessions :
            (\E c \in ConnIds : Live(c) /\ probe.conns[c].session = s) =>
                /\ s \in DOMAIN probe.wsConns
                /\ probe.conns[probe.wsConns[s]].pump = "reading"
                /\ probe.conns[probe.wsConns[s]].session = s
                /\ (probe.op = "sendIntent" /\ probe.target = s) =>
                       probe.reached = probe.wsConns[s]

\* the events a user has dispatched, by their position
DispatchesOf(u) == {i \in DOMAIN probe.dispatched : probe.dispatched[i].user = u}

\* C39: the session map entry under a session id that was dispatched and not
\* cleared since belongs to an event of that session; a callback addressed to
\* a user id finds the context of the event that user dispatched last (when
\* the session of that event has not been cleared).
C39_SessionMapUnambiguous ==
    probe.kind = "sessionmap" =>
        /\ \A i \in DOMAIN probe.dispatched :
              LET s == probe.dispatched[i].session
              IN  s \notin probe.cleared =>
                     /\ s \in DOMAIN probe.sessionCtx
                     /\ probe.dispatched[probe.sessionCtx[s]].session = s
        /\ (probe.op = "callback" /\ DispatchesOf(probe.key) # {}) =>
              LET last == CHOOSE i \in DispatchesOf(probe.key) :
                              \A j \in DispatchesOf(probe.key) : j <= i
              IN  probe.dispatched[last].session \notin probe.cleared =>
                     probe.found = last

\* C40: given the same per-attempt outcomes and the same retry limit, the
\* retry loops of OpenclawClient.ProcessEvent, HTTPClient.ProcessEvent and
\* Notifier.Notify make the same number of attempts and end alike, in success
\* or in "all retries exhausted".
C40_RetryLoopsAgree ==
    (probe.kind = "retry" /\ probe.op = "run") =>
        /\ probe.openclaw.attempts = probe.http.attempts
        /\ probe.http.attempts = probe.notify.attempts
        /\ probe.openclaw.result = probe.http.result
        /\ probe.http.result = probe.notify.result

\* C8: every entry of the in-flight map holds the context of a ProcessEvent
\* call that has registered it and has not returned yet; no entry holds the
\* context of a call that has exited.
C8_PendingOnlyInFlight ==
    \A k \in DOMAIN pending :
        \E w \in Workers : wk[w].ev = pending[k] /\ wk[w].pc \in Registered

\* a call has exited after a reply while another one still holds its entry
C8_Witness ==
    /\ \E i \in DOMAIN sent : sent[i].intent.text # ApologyText
    /\ \E k \in DOMAIN pending : \E w \in Workers :
            wk[w].ev = pending[k] /\ wk[w].pc = "blocked"

\* C9: when some send attempt of a call succeeds, the call does not end with
\* the "all retries exhausted" error (it goes on to wait for the reply).
C9_RetrySuccess ==
    \A w \in Workers :
        (wk[w].outcomes # <<>> /\ Succeeds(Last(wk[w].outcomes)))
            => wk[w].res # "errExhausted"

\* C10 as stated: no call makes more than MaxRetries send attempts.
C10_AtMostMaxRetriesSends ==
    \A w \in Workers : Len(wk[w].outcomes) <= MaxRetries

\* C10: no call makes more than MaxRetries + 1 send attempts (the first one and
\* MaxRetries retries), every retry is preceded by one backoff, and the backoff
\* before the k-th retry is 100 ms * 2^(k-1).
C10_AttemptsAndBackoff ==
    \A w \in Workers :
        /\ Len(wk[w].outcomes) <= MaxRetries + 1
        /\ wk[w].outcomes # <<>> => Len(wk[w].backoffs) = Len(wk[w].outcomes) - 1
        /\ \A k \in DOMAIN wk[w].backoffs : wk[w].backoffs[k] = 100 * 2^(k - 1)

\* a call whose every attempt failed
C10_Witness ==
    \E w \in Workers :
        /\ Len(wk[w].outcomes) = MaxRetries + 1
        /\ Len(wk[w].backoffs) = MaxRetries
        /\ wk[w].res = "errExhausted"

====
